---- MODULE Spec2Model ----
(***************************************************************************)
(* Model of frame.py: adoption centers, the adopter classes and their      *)
(* get_score methods, and the two ranking functions.                       *)
(*                                                                         *)
(* Numbers.  Every Python number is held as an integer count of            *)
(* hundredths (12 is 1200, 0.3 is 30, '2.4' denotes 240).  A value         *)
(* returned by get_score is a record [type, val]: type is "int" for a      *)
(* Python int and "str" for the text produced by '%.1f' % x, val is the    *)
(* number it denotes, in hundredths.                                       *)
(*                                                                         *)
(* Locations.  Coordinates are held in units of 1/2, so that centers       *)
(* closer than 1 but not at distance 0 exist; the location (1, 2) of the   *)
(* source is <<2, 4>>.                                                     *)
(***************************************************************************)
EXTENDS Integers, Sequences, FiniteSets, TLC

VARIABLES
    adopters,   \* list_of_adopters: the constructed adopter objects
    ctor,       \* the constructor arguments adopters[i] was built from
    centers,    \* list_of_adoption_centers: the AdoptionCenter objects
    op,         \* the function or method called last
    args,       \* its arguments
    ret,        \* its return value
    err,        \* the exception it raised, "none" if it returned
    sorted_l    \* the local sorted_ac / sorted_adopters of the last ranking

vars == <<adopters, ctor, centers, op, args, ret, err, sorted_l>>

----------------------------------------------------------------------------
(* Bounds *)

MaxCount == 2      \* largest species count of a generated inventory
MaxLen == 2        \* longest generated species list of an adopter
MaxList == 3       \* longest list handed to a ranking function
MaxN == 4          \* n of get_adopters_for_advertisement is in -MaxN..MaxN

Species == {"Cat", "Dog", "Horse"}

----------------------------------------------------------------------------
(* Python values *)

PyList(s) == [type |-> "list", v |-> s]
PyStr(s) == [type |-> "str", v |-> s]
PyInt(n) == [type |-> "int", val |-> n * 100]

\* the integer x div 10 rounded to the nearest integer, a tie going to the
\* even neighbour (x >= 0)
RoundHalfEven(x) ==
    LET q == x \div 10
        r == x % 10
    IN  IF r > 5 \/ (r = 5 /\ q % 2 = 1) THEN q + 1 ELSE q

\* self.score % x with self.score = '%.1f': the text of x to one decimal
PyFormat(x) ==
    [type |-> "str",
     val |-> IF x >= 0 THEN 10 * RoundHalfEven(x) ELSE -(10 * RoundHalfEven(-x))]

\* float(x[1]) of the sort key
Float(x) == x.val

\* str < str on the names that occur, as an index into the names in order
NamesAscending ==
    <<"Five", "Four", "One", "Place1", "Place2", "Place3", "Six", "Three", "Two">>

NameIndex(name) == CHOOSE k \in 1..Len(NamesAscending) : NamesAscending[k] = name

RECURSIVE SumSeq(_)
SumSeq(s) == IF s = <<>> THEN 0 ELSE Head(s) + SumSeq(Tail(s))

SeqMin(s) == CHOOSE m \in {s[k] : k \in 1..Len(s)} : \A k \in 1..Len(s) : m <= s[k]

----------------------------------------------------------------------------
(* AdoptionCenter *)

AdoptionCenter(name, species_types, location) ==
    [name |-> name, species_types |-> species_types, location |-> location]

get_number_of_species(center, animal) ==
    IF animal \in DOMAIN center.species_types
    THEN center.species_types[animal]
    ELSE 0

----------------------------------------------------------------------------
(* Adopter classes: constructors *)

Adopter(name, desired_species) ==
    [cls |-> "Adopter", name |-> name, desired_species |-> desired_species]

FlexibleAdopter(name, desired_species, considered_species) ==
    [cls |-> "FlexibleAdopter", name |-> name, desired_species |-> desired_species,
     considered_species |-> considered_species.v]

\* the characters of a species name: what iterating over a str yields
Chars(s) ==
    CASE s = "Cat" -> <<"C", "a", "t">>
      [] s = "Dog" -> <<"D", "o", "g">>
      [] s = "Horse" -> <<"H", "o", "r", "s", "e">>
      [] s = "Lizard" -> <<"L", "i", "z", "a", "r", "d">>
      [] OTHER -> <<"M", "o", "u", "s", "e">>

\* FearfulAdopter.__init__ without the type test: a str is kept and later
\* iterated character by character
FearfulAdopterNoWrap(name, desired_species, feared_species) ==
    [cls |-> "FearfulAdopter", name |-> name, desired_species |-> desired_species,
     feared_species |-> IF feared_species.type # "list"
                        THEN Chars(feared_species.v)
                        ELSE feared_species.v]

FearfulAdopter(name, desired_species, feared_species) ==
    [cls |-> "FearfulAdopter", name |-> name, desired_species |-> desired_species,
     feared_species |-> IF feared_species.type # "list"
                        THEN <<feared_species.v>>
                        ELSE feared_species.v]

AllergicAdopter(name, desired_species, allergic_species) ==
    [cls |-> "AllergicAdopter", name |-> name, desired_species |-> desired_species,
     allergic_species |-> IF allergic_species.type # "list"
                          THEN <<allergic_species.v>>
                          ELSE allergic_species.v]

MedicatedAllergicAdopter(name, desired_species, allergic_species, medicine_effectiveness) ==
    [cls |-> "MedicatedAllergicAdopter", name |-> name,
     desired_species |-> desired_species,
     allergic_species |-> IF allergic_species.type # "list"
                          THEN <<allergic_species.v>>
                          ELSE allergic_species.v,
     medicine_effectiveness |-> medicine_effectiveness]

SluggishAdopter(name, desired_species, location) ==
    [cls |-> "SluggishAdopter", name |-> name, desired_species |-> desired_species,
     location |-> location]

\* the object a record of constructor arguments builds
Construct(a) ==
    CASE a.cls = "Adopter" -> Adopter(a.name, a.desired_species)
      [] a.cls = "FlexibleAdopter" ->
            FlexibleAdopter(a.name, a.desired_species, a.species)
      [] a.cls = "FearfulAdopter" ->
            FearfulAdopter(a.name, a.desired_species, a.species)
      [] a.cls = "AllergicAdopter" ->
            AllergicAdopter(a.name, a.desired_species, a.species)
      [] a.cls = "MedicatedAllergicAdopter" ->
            MedicatedAllergicAdopter(a.name, a.desired_species, a.species,
                                     a.medicine_effectiveness)
      [] OTHER -> SluggishAdopter(a.name, a.desired_species, a.location)

----------------------------------------------------------------------------
(* get_score of each class *)

\* Adopter.get_score, also reachable as _get_score: a plain count
_get_score(self, adoption_center) ==
    get_number_of_species(adoption_center, self.desired_species)

get_score_other(adoption_center, other) ==
    get_number_of_species(adoption_center, other)

\* [get_score_other(adoption_center, x) for x in species]
OtherScores(adoption_center, species) ==
    [k \in 1..Len(species) |-> get_score_other(adoption_center, species[k])]

FlexibleAdopter_get_score(self, adoption_center) ==
    LET score == 100 * _get_score(self, adoption_center)
                 + 30 * SumSeq(OtherScores(adoption_center, self.considered_species))
    IN  PyFormat(score)

FearfulAdopter_get_score(self, adoption_center) ==
    LET score == 100 * _get_score(self, adoption_center)
                 - 30 * SumSeq(OtherScores(adoption_center, self.feared_species))
    IN  PyFormat(score)

\* any(...) in the place of all(...): one allergic species of count 0 is enough
AnyAllergicSpeciesMissing(self, adoption_center) ==
    \E k \in 1..Len(self.allergic_species) :
        get_number_of_species(adoption_center, self.allergic_species[k]) = 0

\* all(not adoption_center.get_number_of_species(i) for i in self.allergic_species)
NoAllergicSpecies(self, adoption_center) ==
    \A k \in 1..Len(self.allergic_species) :
        get_number_of_species(adoption_center, self.allergic_species[k]) = 0

\* AllergicAdopter.get_score with any(...) in the place of all(...)
AllergicAdopter_get_score_Any(self, adoption_center) ==
    IF AnyAllergicSpeciesMissing(self, adoption_center)
    THEN PyFormat(100 * _get_score(self, adoption_center))
    ELSE PyInt(0)

AllergicAdopter_get_score(self, adoption_center) ==
    IF NoAllergicSpecies(self, adoption_center)
    THEN PyFormat(100 * _get_score(self, adoption_center))
    ELSE PyInt(0)

\* the int 0 that stands in the inner list for a species the center lacks;
\* it equals no species name
PyZero == "<int 0>"

\* [x if adoption_center.get_number_of_species(x) else 0 for x in self.allergic_species]
HeldOrZero(self, adoption_center) ==
    [k \in 1..Len(self.allergic_species) |->
        IF get_number_of_species(adoption_center, self.allergic_species[k]) # 0
        THEN self.allergic_species[k]
        ELSE PyZero]

\* the coefficient taken over every allergic species, held or not
CoefficientOverAll(self, adoption_center) ==
    SeqMin([k \in 1..Len(self.allergic_species) |->
              IF self.allergic_species[k] \in DOMAIN self.medicine_effectiveness
              THEN self.medicine_effectiveness[self.allergic_species[k]]
              ELSE 100])

Coefficient(self, adoption_center) ==
    LET inner == HeldOrZero(self, adoption_center)
    IN  SeqMin([k \in 1..Len(inner) |->
                  IF inner[k] \in DOMAIN self.medicine_effectiveness
                  THEN self.medicine_effectiveness[inner[k]]
                  ELSE 100])

MedicatedAllergicAdopter_get_score(self, adoption_center) ==
    IF NoAllergicSpecies(self, adoption_center)
    THEN PyFormat(100 * _get_score(self, adoption_center))
    ELSE PyFormat(Coefficient(self, adoption_center) * _get_score(self, adoption_center))

\* the square of the distance, in units of 1/4
DistanceSquared(self, adoption_center) ==
    (adoption_center.location[1] - self.location[1])
        * (adoption_center.location[1] - self.location[1])
    + (adoption_center.location[2] - self.location[2])
        * (adoption_center.location[2] - self.location[2])

breakpoints == <<1, 3, 5, 7>>

\* bisect.bisect(breakpoints, distance): how many breakpoints are <= distance
Bisect(d2) == Cardinality({k \in 1..Len(breakpoints) : 4 * breakpoints[k] * breakpoints[k] <= d2})

\* list[i] of Python: a negative index counts from the end
PyIndex(list, i) == IF i < 0 THEN list[Len(list) + i + 1] ELSE list[i + 1]

\* the values of random.random() that are tried, in hundredths
RandomSamples == {0, 90}

\* rand.uniform(a, b) = a + (b - a) * random()
uniform(a, b) == {a + ((b - a) * u) \div 100 : u \in RandomSamples}

\* the lists [1, rand.uniform(0.7, 0.9), rand.uniform(0.5, 0.7), rand.uniform(0.1, 0.5)]
Mappings ==
    {<<100, m1, m2, m3>> : m1 \in uniform(70, 90), m2 \in uniform(50, 70),
                           m3 \in uniform(10, 50)}

SluggishAdopter_get_score(self, adoption_center, mapping) ==
    LET score == _get_score(self, adoption_center)
        d2 == DistanceSquared(self, adoption_center)
    IN  PyFormat(score * PyIndex(mapping, Bisect(d2) - 1))

\* the random draws one call of get_score makes
Draws(self) == IF self.cls = "SluggishAdopter" THEN Mappings ELSE {<<>>}

\* adopter.get_score(adoption_center), dispatched on the class
get_score(self, adoption_center, mapping) ==
    CASE self.cls = "Adopter" -> PyInt(_get_score(self, adoption_center))
      [] self.cls = "FlexibleAdopter" -> FlexibleAdopter_get_score(self, adoption_center)
      [] self.cls = "FearfulAdopter" -> FearfulAdopter_get_score(self, adoption_center)
      [] self.cls = "AllergicAdopter" -> AllergicAdopter_get_score(self, adoption_center)
      [] self.cls = "MedicatedAllergicAdopter" ->
            MedicatedAllergicAdopter_get_score(self, adoption_center)
      [] OTHER -> SluggishAdopter_get_score(self, adoption_center, mapping)

\* every value get_score can return
ScoreSet(self, adoption_center) ==
    {get_score(self, adoption_center, m) : m \in Draws(self)}

----------------------------------------------------------------------------
(* Ranking functions *)

\* the lists of scores [x.get_score(c) for ...] can yield, one call per element
RECURSIVE AdopterScoreLists(_, _)
AdopterScoreLists(list_of_adopters, adoption_center) ==
    IF list_of_adopters = <<>> THEN {<<>>}
    ELSE {<<s>> \o rest :
            s \in ScoreSet(Head(list_of_adopters), adoption_center),
            rest \in AdopterScoreLists(Tail(list_of_adopters), adoption_center)}

RECURSIVE CenterScoreLists(_, _)
CenterScoreLists(adopter, list_of_adoption_centers) ==
    IF list_of_adoption_centers = <<>> THEN {<<>>}
    ELSE {<<s>> \o rest :
            s \in ScoreSet(adopter, Head(list_of_adoption_centers)),
            rest \in CenterScoreLists(adopter, Tail(list_of_adoption_centers))}

\* {i.get_name(): score of i for i in list}: a later element replaces an
\* earlier one of the same name
DictByName(list, scores) ==
    [name \in {list[k].name : k \in 1..Len(list)} |->
        LET last == CHOOSE k \in 1..Len(list) :
                        /\ list[k].name = name
                        /\ \A l \in 1..Len(list) : list[l].name = name => l <= k
        IN  scores[last]]

\* key(x) < key(y) for key=lambda x: (float(x[1]), x[0])
KeyLess(x, y) ==
    \/ Float(x[2]) < Float(y[2])
    \/ Float(x[2]) = Float(y[2]) /\ NameIndex(x[1]) < NameIndex(y[1])

\* the items in ascending order of the key: sorted without reverse=True
RECURSIVE SortedAscending(_)
SortedAscending(items) ==
    IF items = {} THEN <<>>
    ELSE LET low == CHOOSE x \in items : \A y \in items \ {x} : KeyLess(x, y)
         IN  <<low>> \o SortedAscending(items \ {low})

\* sorted(items, key=..., reverse=True); the keys of distinct items differ
RECURSIVE Sorted(_)
Sorted(items) ==
    IF items = {} THEN <<>>
    ELSE LET top == CHOOSE x \in items : \A y \in items \ {x} : KeyLess(y, x)
         IN  <<top>> \o Sorted(items \ {top})

\* d.items()
Items(d) == {<<name, d[name]>> : name \in DOMAIN d}

\* list[:n] that takes a negative n for an error and yields nothing
SliceNoNegative(list, n) ==
    IF n >= 0
    THEN SubSeq(list, 1, IF n < Len(list) THEN n ELSE Len(list))
    ELSE <<>>

\* list[:n]
Slice(list, n) ==
    IF n >= 0
    THEN SubSeq(list, 1, IF n < Len(list) THEN n ELSE Len(list))
    ELSE SubSeq(list, 1, IF Len(list) + n > 0 THEN Len(list) + n ELSE 0)

PyNone == "None"

----------------------------------------------------------------------------
(* Demonstration objects of the source *)

adopter == [cls |-> "MedicatedAllergicAdopter", name |-> "One", desired_species |-> "Cat",
            species |-> PyList(<<"Dog", "Horse">>),
            medicine_effectiveness |-> ("Dog" :> 50) @@ ("Horse" :> 20)]
adopter2 == [cls |-> "Adopter", name |-> "Two", desired_species |-> "Cat"]
adopter3 == [cls |-> "FlexibleAdopter", name |-> "Three", desired_species |-> "Horse",
             species |-> PyList(<<"Lizard", "Cat">>)]
adopter4 == [cls |-> "FearfulAdopter", name |-> "Four", desired_species |-> "Cat",
             species |-> PyStr("Dog")]
adopter5 == [cls |-> "SluggishAdopter", name |-> "Five", desired_species |-> "Cat",
             location |-> <<2, 4>>]
adopter6 == [cls |-> "AllergicAdopter", name |-> "Six", desired_species |-> "Cat",
             species |-> PyStr("Dog")]
adopter6_225 == [cls |-> "AllergicAdopter", name |-> "Six", desired_species |-> "Lizard",
                 species |-> PyStr("Cat")]

ac == AdoptionCenter("Place1", ("Mouse" :> 12) @@ ("Dog" :> 2), <<2, 2>>)
ac2 == AdoptionCenter("Place2", ("Cat" :> 12) @@ ("Lizard" :> 2), <<6, 10>>)
ac3 == AdoptionCenter("Place3", ("Horse" :> 25) @@ ("Dog" :> 9), <<-4, 20>>)
ac_227 == AdoptionCenter("Place1", ("Cat" :> 12) @@ ("Dog" :> 2), <<2, 2>>)

AdopterPool == {adopter, adopter2, adopter3, adopter4, adopter5, adopter6, adopter6_225}
CenterPool == {ac, ac2, ac3, ac_227}

\* the nonempty lists of at most n different elements of S
ListsUpTo(S, n) ==
    {l \in UNION {[1..k -> S] : k \in 1..n} :
        \A i, j \in 1..Len(l) : l[i] = l[j] => i = j}

----------------------------------------------------------------------------
(* Initial states *)

\* the state once the objects are constructed from the arguments a
Constructed(a, c) ==
    /\ ctor = a
    /\ adopters = [k \in 1..Len(a) |-> Construct(a[k])]
    /\ centers = c
    /\ op = "init"
    /\ args = <<>>
    /\ ret = PyNone
    /\ err = "none"
    /\ sorted_l = <<>>

\* lists of different demonstration objects, some of which share a name: one
\* adopter and a list of centers, or one center and a list of adopters
Init ==
    \E a \in ListsUpTo(AdopterPool, MaxList), c \in ListsUpTo(CenterPool, MaxList) :
        /\ Len(a) = 1 \/ Len(c) = 1
        /\ Constructed(a, c)

----------------------------------------------------------------------------
(* Operations *)

\* get_score that looks the counts up in a mapping which stores the default
\* for a missing key, as collections.defaultdict does
GetScoreStoringDefault ==
    \E i \in 1..Len(adopters), j \in 1..Len(centers) :
        \E s \in ScoreSet(adopters[i], centers[j]) :
            /\ op' = "get_score"
            /\ args' = [adopter |-> i, center |-> j]
            /\ ret' = s
            /\ err' = "none"
            /\ sorted_l' = <<>>
            /\ centers' = [centers EXCEPT ![j].species_types =
                             @ @@ (adopters[i].desired_species :> 0)]
            /\ UNCHANGED <<adopters, ctor>>

\* adopters[i].get_score(centers[j])
GetScore ==
    \E i \in 1..Len(adopters), j \in 1..Len(centers) :
        \E s \in ScoreSet(adopters[i], centers[j]) :
            /\ op' = "get_score"
            /\ args' = [adopter |-> i, center |-> j]
            /\ ret' = s
            /\ err' = "none"
            /\ sorted_l' = <<>>
            /\ UNCHANGED <<adopters, ctor, centers>>

\* centers[j].adopt_pet(species): self.species_types.keys(0) raises TypeError
\* (keys() takes no arguments) before any statement that changes the mapping
AdoptPet ==
    \E j \in 1..Len(centers), species \in Species :
        /\ op' = "adopt_pet"
        /\ args' = [center |-> j, species |-> species]
        /\ ret' = PyNone
        /\ err' = "TypeError"
        /\ sorted_l' = <<>>
        /\ UNCHANGED <<adopters, ctor, centers>>

\* get_ordered_adoption_center_list(adopters[i], centers)
GetOrderedAdoptionCenterList ==
    \E i \in 1..Len(adopters) :
        \E scores \in CenterScoreLists(adopters[i], centers) :
            LET sorted_ac == Sorted(Items(DictByName(centers, scores)))
            IN  /\ op' = "get_ordered_adoption_center_list"
                /\ args' = [adopter |-> i]
                /\ sorted_l' = sorted_ac
                /\ ret' = [key |-> adopters[i].name, value |-> sorted_ac]
                /\ err' = "none"
                /\ UNCHANGED <<adopters, ctor, centers>>

\* get_adopters_for_advertisement(centers[j], adopters, n)
GetAdoptersForAdvertisement ==
    \E j \in 1..Len(centers), n \in (-MaxN)..MaxN :
        \E scores \in AdopterScoreLists(adopters, centers[j]) :
            LET sorted_adopters == Sorted(Items(DictByName(adopters, scores)))
            IN  /\ op' = "get_adopters_for_advertisement"
                /\ args' = [center |-> j, n |-> n]
                /\ sorted_l' = sorted_adopters
                /\ ret' = [key |-> centers[j].name, value |-> Slice(sorted_adopters, n)]
                /\ err' = "none"
                /\ UNCHANGED <<adopters, ctor, centers>>

Next ==
    \/ GetScore
    \/ AdoptPet
    \/ GetOrderedAdoptionCenterList
    \/ GetAdoptersForAdvertisement

Spec == Init /\ [][Next]_vars

----------------------------------------------------------------------------
(* One generated adopter and one generated center *)

\* the multipliers that are tried, in hundredths; 150 lies outside [0,1]
MedicineValues == {0, 25, 50, 75, 100, 150}

MedicineMaps == UNION {[S -> MedicineValues] : S \in SUBSET {"Dog", "Horse"}}

Inventories == UNION {[S -> 0..MaxCount] : S \in SUBSET Species}

\* a list of species, or one species that is not in a list
SpeciesLists == {PyList(l) : l \in UNION {[1..k -> Species] : k \in 0..MaxLen}}
SpeciesArguments == SpeciesLists \cup {PyStr(x) : x \in Species}

\* locations at distance 0, 0.7, 1, 2.5, 3, 4.2, 5, 6.5, 7 and 8.2 of <<0, 0>>
LocationSamples ==
    {<<0, 0>>, <<1, 1>>, <<2, 0>>, <<4, 3>>, <<6, 0>>, <<6, 6>>, <<10, 0>>,
     <<12, 5>>, <<14, 0>>, <<16, 4>>}

AdopterArguments ==
    {[cls |-> "Adopter", name |-> "One", desired_species |-> d] : d \in Species}
    \cup {[cls |-> "FlexibleAdopter", name |-> "One", desired_species |-> d,
           species |-> l] : d \in Species, l \in SpeciesLists}
    \cup {[cls |-> k, name |-> "One", desired_species |-> d, species |-> l] :
            k \in {"FearfulAdopter", "AllergicAdopter"}, d \in Species,
            l \in SpeciesArguments}
    \cup {[cls |-> "MedicatedAllergicAdopter", name |-> "One", desired_species |-> d,
           species |-> l, medicine_effectiveness |-> m] :
            d \in Species, l \in SpeciesArguments, m \in MedicineMaps}
    \cup {[cls |-> "SluggishAdopter", name |-> "One", desired_species |-> d,
           location |-> <<0, 0>>] : d \in Species}

\* the location of the center matters to a SluggishAdopter only
ScoreInit ==
    \E a \in AdopterArguments, inventory \in Inventories, location \in LocationSamples :
        /\ a.cls # "SluggishAdopter" => location = <<0, 0>>
        /\ Constructed(<<a>>, <<AdoptionCenter("Place1", inventory, location)>>)

NextScore ==
    \/ GetScore
    \/ AdoptPet

SpecScore == ScoreInit /\ [][NextScore]_vars

----------------------------------------------------------------------------
(* Vocabulary of the properties *)

\* the count of a species at a center, 0 for a species it does not list
CountAt(center, species) ==
    IF species \in DOMAIN center.species_types THEN center.species_types[species] ELSE 0

\* v is x rounded to one decimal place (a multiple of 10 hundredths), a tie
\* going to the even digit
IsOneDecimalOf(v, x) ==
    /\ v % 10 = 0
    /\ v - x <= 5 /\ x - v <= 5
    /\ (v - x = 5 \/ x - v = 5) => (v \div 10) % 2 = 0

\* a species argument as a list: one that is not a list is a list of one
ArgumentList(a) == IF a.species.type = "list" THEN a.species.v ELSE <<a.species.v>>

ScoredAdopter == adopters[args.adopter]
ScoredArguments == ctor[args.adopter]
ScoredCenter == centers[args.center]

IsScoreOf(cls) == op = "get_score" /\ ScoredAdopter.cls = cls

\* a ranking is in descending order of score, equal scores in descending
\* order of name
Descending(l) ==
    \A k \in 1..(Len(l) - 1) :
        \/ Float(l[k][2]) > Float(l[k + 1][2])
        \/ /\ Float(l[k][2]) = Float(l[k + 1][2])
           /\ NameIndex(l[k][1]) > NameIndex(l[k + 1][1])

FirstN(l, n) == [k \in 1..(IF n < Len(l) THEN n ELSE Len(l)) |-> l[k]]

NamesOf(list) == {list[k].name : k \in 1..Len(list)}

RankedNames(l) == {l[k][1] : k \in 1..Len(l)}

----------------------------------------------------------------------------
(* C1 *)

\* C1: get_adopters_for_advertisement returns (name, score) entries in
\* descending score order, equal scores in descending name order, and for
\* n >= 0 its result is the first n entries of the full sorted ranking;
\* get_ordered_adoption_center_list orders the centers by the same rule.
\* Every entry carries the name of an input and a score of an input of that
\* name.
C1_RankingOrder ==
    /\ op = "get_adopters_for_advertisement" =>
        /\ Descending(sorted_l)
        /\ RankedNames(sorted_l) = NamesOf(adopters)
        /\ \A k \in 1..Len(sorted_l) : \E i \in 1..Len(adopters) :
              /\ adopters[i].name = sorted_l[k][1]
              /\ sorted_l[k][2] \in ScoreSet(adopters[i], centers[args.center])
        /\ ret.key = centers[args.center].name
        /\ args.n >= 0 => ret.value = FirstN(sorted_l, args.n)
        /\ Descending(ret.value)
    /\ op = "get_ordered_adoption_center_list" =>
        /\ ret.key = adopters[args.adopter].name
        /\ ret.value = sorted_l
        /\ Descending(ret.value)
        /\ RankedNames(ret.value) = NamesOf(centers)
        /\ \A k \in 1..Len(sorted_l) : \E j \in 1..Len(centers) :
              /\ centers[j].name = sorted_l[k][1]
              /\ sorted_l[k][2] \in ScoreSet(adopters[args.adopter], centers[j])

\* a ranking of three adopters, two of them of equal score, cut to two
C1_Witness ==
    /\ op = "get_adopters_for_advertisement"
    /\ Len(sorted_l) = 3
    /\ args.n = 2
    /\ Len(ret.value) = 2
    /\ Float(sorted_l[1][2]) > Float(sorted_l[2][2])
    /\ Float(sorted_l[2][2]) = Float(sorted_l[3][2])

----------------------------------------------------------------------------
(* C2 *)

\* the multiplier of an allergic species: 1 when the mapping lacks it
Multiplier(self, species) ==
    IF species \in DOMAIN self.medicine_effectiveness
    THEN self.medicine_effectiveness[species]
    ELSE 100

\* the multipliers of the allergic species the center holds
HeldMultipliers(self, center) ==
    {Multiplier(self, self.allergic_species[k]) :
        k \in {l \in 1..Len(self.allergic_species) :
                  CountAt(center, self.allergic_species[l]) > 0}}

MinOf(S) == CHOOSE m \in S : \A x \in S : m <= x

\* a MedicatedAllergicAdopter with multipliers in [0,1] was scored at a
\* center that holds one of its allergic species
C2_Case ==
    /\ IsScoreOf("MedicatedAllergicAdopter")
    /\ \A x \in DOMAIN ScoredAdopter.medicine_effectiveness :
          /\ 0 <= ScoredAdopter.medicine_effectiveness[x]
          /\ ScoredAdopter.medicine_effectiveness[x] <= 100
    /\ HeldMultipliers(ScoredAdopter, ScoredCenter) # {}

----------------------------------------------------------------------------
(* C3, C4 *)

\* C3: a SluggishAdopter scored at a center closer than 1 gets exactly the
\* desired-species count.
C3_NearCenterFullCount ==
    (IsScoreOf("SluggishAdopter") /\ DistanceSquared(ScoredAdopter, ScoredCenter) < 4) =>
        Float(ret) = 100 * CountAt(ScoredCenter, ScoredAdopter.desired_species)

\* the score is count times some coefficient of lo..hi, to one decimal place
WithinBucket(v, count, lo, hi) ==
    \E low, high \in 0..(count * hi + 10) :
        /\ IsOneDecimalOf(low, count * lo)
        /\ IsOneDecimalOf(high, count * hi)
        /\ low <= v /\ v <= high

\* C4: a SluggishAdopter scored at a center at distance d >= 1 gets the
\* desired-species count times a coefficient of 0.7..0.9 when d < 3, of
\* 0.5..0.7 when 3 <= d < 5, and of 0.1..0.5 when d >= 5 (stated up to the
\* rounding of the score to one decimal place).
C4_BucketCoefficient ==
    (IsScoreOf("SluggishAdopter") /\ DistanceSquared(ScoredAdopter, ScoredCenter) >= 4) =>
        LET d2 == DistanceSquared(ScoredAdopter, ScoredCenter)
            count == CountAt(ScoredCenter, ScoredAdopter.desired_species)
        IN  IF d2 < 36 THEN WithinBucket(Float(ret), count, 70, 90)
            ELSE IF d2 < 100 THEN WithinBucket(Float(ret), count, 50, 70)
            ELSE WithinBucket(Float(ret), count, 10, 50)

----------------------------------------------------------------------------
(* C5 *)

\* C5: an AllergicAdopter scores the desired-species count at a center where
\* every allergic species has count 0 (a species the center does not list
\* counting as 0), and 0 at a center where one has a positive count.
C5_Allergic ==
    IsScoreOf("AllergicAdopter") =>
        LET held == {k \in 1..Len(ScoredAdopter.allergic_species) :
                        CountAt(ScoredCenter, ScoredAdopter.allergic_species[k]) > 0}
        IN  /\ (\A k \in 1..Len(ScoredAdopter.allergic_species) :
                   CountAt(ScoredCenter, ScoredAdopter.allergic_species[k]) = 0)
               => Float(ret) = 100 * CountAt(ScoredCenter, ScoredAdopter.desired_species)
            /\ held # {} => Float(ret) = 0

\* one allergic species is held and another is not, and the desired species
\* is there
C5_Witness ==
    /\ IsScoreOf("AllergicAdopter")
    /\ CountAt(ScoredCenter, ScoredAdopter.desired_species) > 0
    /\ \E k, l \in 1..Len(ScoredAdopter.allergic_species) :
          /\ CountAt(ScoredCenter, ScoredAdopter.allergic_species[k]) > 0
          /\ ScoredAdopter.allergic_species[l] \notin DOMAIN ScoredCenter.species_types
    /\ Float(ret) = 0

----------------------------------------------------------------------------
(* C6 *)

\* C6: a FearfulAdopter scores the desired-species count minus 0.3 times the
\* sum of the counts of its feared species, where a feared species given to
\* the constructor outside a list counts as the list of that one species.
C6_Fearful ==
    IsScoreOf("FearfulAdopter") =>
        LET feared == ArgumentList(ScoredArguments)
        IN  Float(ret) = 100 * CountAt(ScoredCenter, ScoredAdopter.desired_species)
                         - 30 * SumSeq([k \in 1..Len(feared) |->
                                           CountAt(ScoredCenter, feared[k])])

\* the feared species was not given in a list and the center holds it
C6_Witness ==
    /\ IsScoreOf("FearfulAdopter")
    /\ ScoredArguments.species.type = "str"
    /\ CountAt(ScoredCenter, ScoredArguments.species.v) = 2
    /\ CountAt(ScoredCenter, ScoredAdopter.desired_species) = 1
    /\ Float(ret) = 40

----------------------------------------------------------------------------
(* C7 *)

\* C7: the untruncated ranking has one entry for every element of the list
\* it ranks, also when elements share a name.
C7_NoEntityDiscarded ==
    /\ op = "get_adopters_for_advertisement" => Len(sorted_l) = Len(adopters)
    /\ op = "get_ordered_adoption_center_list" => Len(sorted_l) = Len(centers)

----------------------------------------------------------------------------
(* C8 *)

\* C8 as stated: get_adopters_for_advertisement with a negative n fails with
\* InvalidArgument and returns no ranking.
C8_NegativeNFails ==
    (op = "get_adopters_for_advertisement" /\ args.n < 0) =>
        /\ err = "InvalidArgument"
        /\ ret = PyNone

\* C8 amended: get_adopters_for_advertisement raises nothing; with a negative
\* n it returns the sorted ranking without its last -n entries (nothing when
\* -n is at least its length), with n = 0 it returns no entry, and with n
\* larger than the number of adopters the whole sorted ranking.
C8_Truncation ==
    op = "get_adopters_for_advertisement" =>
        /\ err = "none"
        /\ args.n < 0 =>
              /\ Len(ret.value) =
                    (IF Len(sorted_l) + args.n > 0 THEN Len(sorted_l) + args.n ELSE 0)
              /\ \A k \in 1..Len(ret.value) : ret.value[k] = sorted_l[k]
        /\ args.n = 0 => ret.value = <<>>
        /\ args.n > Len(adopters) => ret.value = sorted_l

\* n = -1 on a ranking of three entries: the first two are returned
C8_Witness ==
    /\ op = "get_adopters_for_advertisement"
    /\ args.n = -1
    /\ Len(sorted_l) = 3
    /\ Len(ret.value) = 2
    /\ err = "none"

----------------------------------------------------------------------------
(* C9 *)

\* C9: adopt_pet(s) lowers the count of s by 1 and nothing else when s is
\* listed with a positive count, and otherwise fails with OutOfStock and
\* leaves the inventory as it was.
C9_AdoptPet ==
    [][op' = "adopt_pet" =>
          LET j == args'.center
              s == args'.species
          IN  IF CountAt(centers[j], s) > 0
              THEN /\ err' = "none"
                   /\ centers' = [centers EXCEPT ![j].species_types[s] = @ - 1]
              ELSE /\ err' = "OutOfStock"
                   /\ centers' = centers]_vars

----------------------------------------------------------------------------
(* C10 *)

\* C10: no get_score, get_ordered_adoption_center_list or
\* get_adopters_for_advertisement call changes the name, the inventory (keys
\* and counts) or the location of any center.
C10_CentersNotMutated ==
    [][op' \in {"get_score", "get_ordered_adoption_center_list",
                "get_adopters_for_advertisement"} => centers' = centers]_vars

\* a score was taken for a species the center does not list, and the center
\* still does not list it
C10_Witness ==
    /\ op = "get_score"
    /\ ScoredAdopter.desired_species \notin DOMAIN ScoredCenter.species_types
    /\ Float(ret) = 0

====
